---- MODULE Spec2Model ----
(***************************************************************************)
(* remote_con: a UI thread (ui/mod.rs, RemoteConApp) and background worker *)
(* threads (worker/mod.rs, worker_main) that both use the process-wide     *)
(* console binding (console/attach.rs, read.rs, write.rs).                 *)
(*                                                                         *)
(* Strings are sequences of character codes.  Option<T> is a sequence of   *)
(* length at most one: None is <<>> and Some(x) is <<x>>.                  *)
(* Every console capability call (attach_to_console, detach_from_console,  *)
(* read_console_lines, send_command, send_ctrl_c, send_control_char) is one *)
(* step of the thread that makes it, and so is every try_recv of the       *)
(* worker.  The thread-local code between two such steps (the test of      *)
(* current_pid, thread::sleep) belongs to the step before it.              *)
(***************************************************************************)
EXTENDS Integers, Sequences, FiniteSets, TLC

\* ---------------------------------------------------------------- bounds
NumPids == 2
MaxWorkers == 2
MaxSends == 3
MaxEvents == 2
MaxLines == 2
MaxDiffLines == 2
MaxDiffLen == 2
MaxRun == 2
MaxRows == 3
MaxEmitted == 2
\* user inputs (button presses, slider moves) the UI handles
MaxInputs == 2

\* ------------------------------------------------------ program constants
\* RemoteConApp::default(): lines_to_display, refresh_interval_ms
DefaultLinesToDisplay == 400
DefaultRefreshIntervalMs == 500
\* the lower end of the interval slider
MinRefreshIntervalMs == 50
\* the lower end of the lines slider
MinLinesToDisplay == 10
\* WorkerConfig::default(): interval (ms), lines
WorkerDefaultInterval == 500
WorkerDefaultLines == 100

Pids == 1..NumPids
Workers == 1..MaxWorkers
\* i16::MAX
I16Max == 32767
\* A line count whose `as i16` is negative
WrappedLines == I16Max + 1
\* line counts a SetLines message carries
LineCounts == (1..MaxLines) \cup {WrappedLines}
\* intervals (ms) the slider sets and a SetInterval message carries
Durations == {MinRefreshIntervalMs, DefaultRefreshIntervalMs}
\* What the lines slider (10..=500) can be set to
LinesToDisplayValues == {MinLinesToDisplay, DefaultLinesToDisplay}
\* WorkerConfig::default()
WorkerConfigDefault == [interval |-> WorkerDefaultInterval, lines |-> WorkerDefaultLines]
\* The WorkerConfig a ConsoleWorker is made with
WorkerConfigs ==
    {WorkerConfigDefault, [interval |-> MinRefreshIntervalMs, lines |-> 1]}

\* ------------------------------------------------------------ characters
ChNul == 0
ChLf == 10
ChSp == 32

\* char::is_whitespace, on the codes the model uses
IsWhitespace(c) == c \in {9, 10, 11, 12, 13, 32}

\* ---------------------------------------------------------------- Option
None == <<>>
Some(x) == <<x>>
IsSome(o) == o # <<>>
Unwrap(o) == o[1]

\* ------------------------------------------------------- string helpers
RECURSIVE TrimEndMatches(_, _)
\* str::trim_end_matches(ch)
TrimEndMatches(s, ch) ==
    IF s # <<>> /\ s[Len(s)] = ch
    THEN TrimEndMatches(SubSeq(s, 1, Len(s) - 1), ch)
    ELSE s

RECURSIVE TrimEnd(_)
\* str::trim_end
TrimEnd(s) ==
    IF s # <<>> /\ IsWhitespace(s[Len(s)])
    THEN TrimEnd(SubSeq(s, 1, Len(s) - 1))
    ELSE s

RECURSIVE TrimStart(_)
\* str::trim_start
TrimStart(s) ==
    IF s # <<>> /\ IsWhitespace(s[1])
    THEN TrimStart(Tail(s))
    ELSE s

\* str::trim
Trim(s) == TrimStart(TrimEnd(s))

RECURSIVE Join(_, _)
\* [String]::join(sep)
Join(ls, sep) ==
    IF ls = <<>> THEN <<>>
    ELSE IF Len(ls) = 1 THEN ls[1]
    ELSE ls[1] \o sep \o Join(Tail(ls), sep)

\* -------------------------------------------------- console/read.rs
\* `x as i16`
AsI16(n) ==
    LET m == n % 65536 IN IF m >= 32768 THEN m - 65536 ELSE m

\* read_line: the row's cells, trailing NULs and then trailing whitespace removed
read_line(scr, y) == TrimEnd(TrimEndMatches(scr.rows[y + 1], ChNul))

\* read_console_lines(num_lines) on the screen buffer scr of the bound console,
\* once CONOUT$ is open and its buffer info read: rows start_y..=cursor_y.  When
\* num_lines as i16 is below -1, start_y is beyond cursor_y (or the subtraction
\* overflows, a panic of a build with overflow checks) and lines_to_read is
\* negative: as usize it is above isize::MAX and Vec::with_capacity panics
\* (capacity overflow).  In every build the call panics: panic is TRUE and no
\* lines are returned.
read_console_lines(num_lines, scr) ==
    LET cursor_y == scr.cursor
        start_y == IF cursor_y >= AsI16(num_lines)
                   THEN cursor_y - AsI16(num_lines)
                   ELSE 0
        lines_to_read == cursor_y - start_y + 1
    IN  IF lines_to_read < 0
        THEN [panic |-> TRUE, lines |-> <<>>]
        ELSE [panic |-> FALSE,
              lines |-> [k \in 1..lines_to_read |-> read_line(scr, start_y + k - 1)]]

\* Screen buffers a console can show (rows of cells, cursor row from 0).
\* 97 and 98 are the letters a and b.
ScreenAB == [rows |-> << <<97, ChSp, ChSp>>, <<98, ChSp, ChNul>> >>, cursor |-> 1]
ScreenALfB == [rows |-> << <<97, ChLf, 98>>, <<ChSp, ChSp, ChSp>> >>, cursor |-> 0]
ScreenBAB ==
    [rows |-> << <<98, ChNul, ChNul>>, <<97, ChSp, ChSp>>, <<98, ChSp, ChSp>> >>,
     cursor |-> 2]
Screens == {ScreenAB, ScreenALfB, ScreenBAB}
\* What the consoles show while the UI runs: two screens, so that a poll can
\* find the content changed
UiScreens == {ScreenAB, ScreenBAB}

\* ------------------------------------------------------ worker/mod.rs types
\* UiMessage
Attach(pid) == [tag |-> "Attach", arg |-> pid]
Detach == [tag |-> "Detach", arg |-> 0]
SetInterval(d) == [tag |-> "SetInterval", arg |-> d]
SetLines(n) == [tag |-> "SetLines", arg |-> n]
Stop == [tag |-> "Stop", arg |-> 0]
UiMessage ==
    {Attach(p) : p \in Pids} \cup {Detach, Stop}
        \cup {SetInterval(d) : d \in Durations} \cup {SetLines(n) : n \in LineCounts}

\* A failed re-attach reported as an Error
DisconnectedAsError == [tag |-> "Error", msg |-> "Disconnected", pid |-> 0, lines |-> <<>>]

\* An Output event that carries no lines
OutputWithoutLines(ls) == [tag |-> "Output", msg |-> "", pid |-> 0, lines |-> <<>>]

\* WorkerMessage (the timestamp of Output is not modelled)
Output(ls) == [tag |-> "Output", msg |-> "", pid |-> 0, lines |-> ls]
Error(m) == [tag |-> "Error", msg |-> m, pid |-> 0, lines |-> <<>>]
Status(m, p) == [tag |-> "Status", msg |-> m, pid |-> p, lines |-> <<>>]
Disconnected == [tag |-> "Disconnected", msg |-> "", pid |-> 0, lines |-> <<>>]

\* A change test that never reports a change against an empty baseline
OutputChangedFromSome(last, output_lines) ==
    IsSome(last) /\ last # Some(Join(output_lines, <<ChLf>>))

\* A change test that reports every read as changed
OutputChangedAlways(last, output_lines) == TRUE

\* The change test of worker_main: last_output.as_ref() != Some(&output),
\* with output = output_lines.join("\n")
OutputChanged(last, output_lines) == last # Some(Join(output_lines, <<ChLf>>))

VARIABLES
    \* the process-wide console binding (FreeConsole / AttachConsole)
    binding,
    \* RemoteConApp
    worker, attached_pid, refresh_interval_ms, lines_to_display,
    console_output, status_message, last_error,
    \* the UI thread's position inside a send function, and what that function
    \* sends
    uipc, sending,
    \* number of user inputs (button presses, slider moves) handled so far
    ninputs,
    \* ConsoleWorker::new: number of workers spawned so far, and the WorkerConfig
    \* each was made with
    nworkers, config,
    \* worker_main, per worker thread
    wpc, cmd, current_pid, interval, lines, last_output,
    \* the Result of the capability call (attach_to_console,
    \* detach_from_console, read_console_lines) the worker's last step made:
    \* Some(TRUE) for Ok, Some(FALSE) for Err, None if that step made no call
    result,
    \* the two channels of each worker: ui_tx/ui_rx and worker_tx/worker_rx
    queue, events,
    \* history: every message accepted by send, every message taken by try_recv
    sent, applied,
    \* history of a worker's loop: whether the read of the poll in progress
    \* failed, the current run of successful polls that returned the same lines,
    \* and how many commands queued at the try_recv of this iteration still wait
    read_failed, run, pending,
    \* history of a session: whether the last ConsoleWorker::send returned Err,
    \* what the first successful poll after the last successful Attach did, the
    \* baseline last cleared, and the current_pid at the try_recv that took the
    \* last Attach
    send_err, first_poll, baseline_before, prev_pid,
    \* history of the cadence: the duration of the thread::sleep the worker's
    \* last step ended with and the line count its last step read with, None
    \* if that step did not sleep, did not read
    slept, read_n,
    \* history of the events channel: the first MaxEmitted events each worker
    \* sent, the first MaxEmitted events taken from each worker's channel, and
    \* what the last ConsoleWorker::try_recv returned
    emitted, taken, got,
    \* history of the display: the workers that ever sent an event into each
    \* events channel, and the workers whose events the last step of the UI
    \* applied
    origin, applied_from,
    \* the change test applied to two reads in a row (SpecDiff)
    dpc, dprev, dcur, dlast, dchanged,
    \* one call of read_console_lines (SpecRead): its position, num_lines, the
    \* screen buffer, the result
    rpc, rn, rscr, rout

procVars == <<binding>>
dispFields == <<console_output, status_message, last_error>>
uiVars == <<worker, attached_pid, refresh_interval_ms, lines_to_display, dispFields,
           uipc, sending, ninputs>>
spawnVars == <<nworkers, config>>
workerVars == <<wpc, cmd, current_pid, interval, lines, last_output, result>>
chanVars == <<queue, events, sent, applied>>
pollVars == <<read_failed, run, pending>>
sessVars == <<first_poll, baseline_before, prev_pid>>
cadVars == <<slept, read_n>>
evVars == <<emitted, taken, got>>
dispVars == <<origin, applied_from>>
histVars == <<pollVars, sessVars, cadVars, evVars, dispVars, send_err>>
diffVars == <<dpc, dprev, dcur, dlast, dchanged>>
readVars == <<rpc, rn, rscr, rout>>
pureVars == <<diffVars, readVars>>
vars == <<procVars, uiVars, spawnVars, workerVars, chanVars, histVars, pureVars>>


\* ------------------------------------------------ console/attach.rs, write.rs
\* An attach that binds the console whatever AttachConsole answered
AttachAlwaysBinds(pid, ok, free_ok) == Some(pid)

\* attach_to_console(pid): let _ = FreeConsole(), free_ok its outcome, then
\* AttachConsole(pid), whose outcome ok is the result of the call.  The binding
\* after the call: pid if it succeeded; else released if FreeConsole
\* succeeded, as it was if FreeConsole failed.
attach_to_console(pid, ok, free_ok) ==
    IF ok THEN Some(pid) ELSE IF free_ok THEN None ELSE binding

\* AttachConsole succeeds only in a process that has no console: FreeConsole
\* released it, or there was none.
AttachOutcomes(free_ok) == IF free_ok \/ binding = None THEN BOOLEAN ELSE {FALSE}

\* detach_from_console(): FreeConsole, ok its outcome.  The binding after the
\* call: released if it succeeded, as it was if it failed.
detach_from_console(ok) == IF ok THEN None ELSE binding

\* The outcomes read_console_lines and the write calls can have: CreateFileW on
\* CONOUT$ / CONIN$ fails when the process has no console; with a console the
\* Win32 calls may still fail.
IoOutcomes == IF IsSome(binding) THEN BOOLEAN ELSE {FALSE}

\* ------------------------------------------------------------- channels
\* The UI (or any holder of the ConsoleWorker) holds the handle of worker w.
HandleHeld(w) == worker = Some(w)

\* A channel that hands out the newest message first
TryRecvNewest(q) == [msg |-> q[Len(q)], rest |-> SubSeq(q, 1, Len(q) - 1)]

\* ui_rx.try_recv() on a non-empty channel: the oldest message, and the rest.
TryRecv(q) == [msg |-> Head(q), rest |-> Tail(q)]

\* A send that succeeds whether or not there is a receiver
SendOkAlways(w) == TRUE

\* The thread of worker w has ended: worker_main returned, or a panic unwound
\* it.
Ended(w) == wpc[w] \in {"exited", "panicked"}

\* ui_tx.send(msg) succeeds while the receiver ui_rx lives, that is until
\* the thread ends.
SendOk(w) == ~Ended(w)

\* A send that loses the event
EmitNothing(w, e) == UNCHANGED events

\* A send into one events channel shared by every worker: the event reaches
\* whoever holds a handle
EmitToHeld(w, e) ==
    events' = IF IsSome(worker)
              THEN [events EXCEPT ![Unwrap(worker)] = Append(@, e)]
              ELSE events

\* worker_tx.send(e): appended while the receiver (the handle) lives; the error
\* of a send to a dropped receiver is ignored (let _ =).
Emit(w, e) ==
    events' = [events EXCEPT ![w] = IF HandleHeld(w) THEN Append(@, e) ELSE @]

\* The event channel is unbounded; the model caps it.
CanEmit(w) == ~HandleHeld(w) \/ Len(events[w]) < MaxEvents

\* ------------------------------------------------------------ worker_main
\* The worker actions say nothing of the history variables read_failed and run:
\* a specification adds what happens to them (UNCHANGED, or the Hist actions).

\* A loop that polls whether attached or not
AfterCommandAlwaysPolls(cp) == "poll"

\* Where the loop goes once the match on try_recv is done, current_pid being cp:
\* to the re-attach of the poll if Some, else through thread::sleep(interval)
\* to the next try_recv.
AfterCommand(cp) == IF IsSome(cp) THEN "poll" ELSE "recv"

\* Where the loop goes on Stop, current_pid being cp: to the detach if Some,
\* and out of the loop (break).
AfterStop(cp) == IF IsSome(cp) THEN "stop_detach" ELSE "exited"

\* A line count that any cadence message replaces
NewLinesFromAny(cur, m) == IF m.tag \in {"SetInterval", "SetLines"} THEN m.arg ELSE cur

\* interval and lines after message m: Ok(UiMessage::SetInterval(d)) => interval = d,
\* Ok(UiMessage::SetLines(n)) => lines = n
NewInterval(cur, m) == IF m.tag = "SetInterval" THEN m.arg ELSE cur
NewLines(cur, m) == IF m.tag = "SetLines" THEN m.arg ELSE cur

\* match ui_rx.try_recv(): one message at most per loop iteration.
WRecv(w) ==
    /\ wpc[w] = "recv"
    /\ UNCHANGED <<procVars, uiVars, spawnVars, events, sent, pureVars,
                   current_pid, last_output>>
    /\ result' = [result EXCEPT ![w] = None]
    /\ IF queue[w] = <<>>
       THEN /\ wpc' = [wpc EXCEPT ![w] = AfterCommand(current_pid[w])]  \* Err(_) => {}
            /\ UNCHANGED <<queue, applied, cmd, interval, lines>>
       ELSE LET r == TryRecv(queue[w])
                m == r.msg
            IN  /\ queue' = [queue EXCEPT ![w] = r.rest]
                /\ applied' = [applied EXCEPT ![w] = Append(@, m)]
                /\ cmd' = [cmd EXCEPT ![w] = IF m.tag = "Attach" THEN Some(m.arg) ELSE None]
                /\ interval' = [interval EXCEPT ![w] = NewInterval(@, m)]
                /\ lines' = [lines EXCEPT ![w] = NewLines(@, m)]
                /\ wpc' = [wpc EXCEPT ![w] =
                        CASE m.tag = "Attach" ->
                                IF IsSome(current_pid[w]) THEN "attach_detach" ELSE "attach"
                          [] m.tag = "Detach" ->
                                IF IsSome(current_pid[w]) THEN "detach" ELSE "recv"
                          [] m.tag = "Stop" -> AfterStop(current_pid[w])
                          [] OTHER -> AfterCommand(current_pid[w])]

\* Attach(pid), attached before: let _ = detach_from_console(), ok its outcome;
\* current_pid = None
WAttachDetach(w, ok) ==
    /\ wpc[w] = "attach_detach"
    /\ binding' = detach_from_console(ok)
    /\ result' = [result EXCEPT ![w] = Some(ok)]
    /\ current_pid' = [current_pid EXCEPT ![w] = None]
    /\ wpc' = [wpc EXCEPT ![w] = "attach"]
    /\ UNCHANGED <<uiVars, spawnVars, cmd, interval, lines, last_output,
                   chanVars, pureVars>>

\* Attach(pid): match attach_to_console(pid), ok its outcome
WAttach(w, ok) ==
    /\ wpc[w] = "attach"
    /\ CanEmit(w)
    /\ LET pid == Unwrap(cmd[w]) IN
        /\ \E free_ok \in BOOLEAN :
                /\ ok \in AttachOutcomes(free_ok)
                /\ binding' = attach_to_console(pid, ok, free_ok)
        /\ result' = [result EXCEPT ![w] = Some(ok)]
        /\ IF ok
           THEN /\ current_pid' = [current_pid EXCEPT ![w] = Some(pid)]
                /\ last_output' = [last_output EXCEPT ![w] = None]
                /\ Emit(w, Status("Attached to PID", pid))
           ELSE /\ Emit(w, Error("Failed to attach"))
                /\ UNCHANGED <<current_pid, last_output>>
    /\ cmd' = [cmd EXCEPT ![w] = None]
    /\ wpc' = [wpc EXCEPT ![w] = AfterCommand(current_pid'[w])]
    /\ UNCHANGED <<uiVars, spawnVars, interval, lines, queue, sent, applied,
                   pureVars>>

\* Detach, attached: let _ = detach_from_console(), ok its outcome;
\* current_pid = None; last_output = None
WDetach(w, ok) ==
    /\ wpc[w] = "detach"
    /\ CanEmit(w)
    /\ binding' = detach_from_console(ok)
    /\ result' = [result EXCEPT ![w] = Some(ok)]
    /\ current_pid' = [current_pid EXCEPT ![w] = None]
    /\ last_output' = [last_output EXCEPT ![w] = None]
    /\ Emit(w, Status("Detached", 0))
    /\ wpc' = [wpc EXCEPT ![w] = "recv"]
    /\ UNCHANGED <<uiVars, spawnVars, cmd, interval, lines, queue, sent,
                   applied, pureVars>>

\* Stop, attached: let _ = detach_from_console(), ok its outcome; break
WStopDetach(w, ok) ==
    /\ wpc[w] = "stop_detach"
    /\ binding' = detach_from_console(ok)
    /\ result' = [result EXCEPT ![w] = Some(ok)]
    /\ wpc' = [wpc EXCEPT ![w] = "exited"]
    /\ UNCHANGED <<uiVars, spawnVars, cmd, current_pid, interval, lines,
                   last_output, chanVars, pureVars>>

\* The poll, current_pid = Some(pid): attach_to_console(pid), the re-attach,
\* ok its outcome
WPoll(w, ok) ==
    /\ wpc[w] = "poll"
    /\ CanEmit(w)
    /\ \E free_ok \in BOOLEAN :
            /\ ok \in AttachOutcomes(free_ok)
            /\ binding' = attach_to_console(Unwrap(current_pid[w]), ok, free_ok)
    /\ result' = [result EXCEPT ![w] = Some(ok)]
    /\ IF ok
       THEN /\ wpc' = [wpc EXCEPT ![w] = "read"]
            /\ UNCHANGED <<current_pid, last_output, events>>
       ELSE /\ Emit(w, Disconnected)
            /\ current_pid' = [current_pid EXCEPT ![w] = None]
            /\ last_output' = [last_output EXCEPT ![w] = None]
            /\ wpc' = [wpc EXCEPT ![w] = "recv"]      \* continue
    /\ UNCHANGED <<uiVars, spawnVars, cmd, interval, lines, queue, sent,
                   applied, pureVars>>

\* match read_console_lines(lines): ok whether CONOUT$ can be opened and read,
\* scr what the bound console shows at that moment.  A panic of the call unwinds
\* the thread: nothing is sent, the console stays attached.
WRead(w, ok, scr) ==
    /\ wpc[w] = "read"
    /\ CanEmit(w)
    /\ ok \in IoOutcomes
    /\ LET r == read_console_lines(lines[w], scr)
           output_lines == r.lines
       IN  IF ok /\ r.panic
           THEN /\ wpc' = [wpc EXCEPT ![w] = "panicked"]
                /\ result' = [result EXCEPT ![w] = None]
                /\ UNCHANGED <<last_output, events>>
           ELSE /\ wpc' = [wpc EXCEPT ![w] = "poll_detach"]
                /\ result' = [result EXCEPT ![w] = Some(ok)]
                /\ IF ok
                   THEN IF OutputChanged(last_output[w], output_lines)
                        THEN /\ last_output' = [last_output EXCEPT ![w] =
                                                   Some(Join(output_lines, <<ChLf>>))]
                             /\ Emit(w, Output(output_lines))
                        ELSE UNCHANGED <<last_output, events>>
                   ELSE /\ Emit(w, Error("Read error"))
                        /\ UNCHANGED last_output
    /\ UNCHANGED <<procVars, uiVars, spawnVars, cmd, current_pid, interval, lines,
                   queue, sent, applied, pureVars>>

\* Detach after reading: let _ = detach_from_console(), ok its outcome; then
\* thread::sleep(interval)
WPollDetach(w, ok) ==
    /\ wpc[w] = "poll_detach"
    /\ binding' = detach_from_console(ok)
    /\ result' = [result EXCEPT ![w] = Some(ok)]
    /\ wpc' = [wpc EXCEPT ![w] = "recv"]
    /\ UNCHANGED <<uiVars, spawnVars, cmd, current_pid, interval, lines,
                   last_output, chanVars, pureVars>>

\* ------------------------------------------------------- history of polls
\* No successful poll since the last Attach, Detach, disconnect or failed read.
NoRun == [lines |-> None, polls |-> 0, outputs |-> 0]

Min(a, b) == IF a < b THEN a ELSE b

\* The run after a successful poll that returned ls and emitted n Output events:
\* the same run if ls is what the poll before it returned, else a new one.
\* The counts stop at MaxRun.
RunAfter(r, ls, n) ==
    IF r.lines = Some(ls)
    THEN [lines |-> r.lines, polls |-> Min(r.polls + 1, MaxRun),
          outputs |-> Min(r.outputs + n, MaxRun)]
    ELSE [lines |-> Some(ls), polls |-> 1, outputs |-> n]

\* This step puts an Output event on the event channel of worker w.
SendsOutput(w) ==
    /\ events'[w] # events[w]
    /\ events'[w][Len(events'[w])].tag = "Output"

\* An Attach or Detach is carried out, or the re-attach of a poll failed: the
\* run ends.
HistReset(w) ==
    /\ run' = [run EXCEPT ![w] = NoRun]
    /\ UNCHANGED <<read_failed, pending, sessVars, cadVars, evVars, dispVars, send_err>>

\* The try_recv that starts an iteration: the commands queued behind the one it
\* takes
HistRecv(w) ==
    /\ pending' = [pending EXCEPT ![w] = IF queue[w] = <<>> THEN 0 ELSE Len(queue[w]) - 1]
    /\ UNCHANGED <<read_failed, run, sessVars, cadVars, evVars, dispVars, send_err>>

\* The read of a poll
HistRead(w, ok, scr) ==
    /\ read_failed' = [read_failed EXCEPT ![w] = ~ok]
    /\ run' = [run EXCEPT ![w] =
                IF ok /\ ~read_console_lines(lines[w], scr).panic
                THEN RunAfter(@, read_console_lines(lines[w], scr).lines,
                              IF SendsOutput(w) THEN 1 ELSE 0)
                ELSE NoRun]
    /\ UNCHANGED <<pending, sessVars, cadVars, evVars, dispVars, send_err>>

\* The poll is over.
HistPollEnd(w) ==
    /\ read_failed' = [read_failed EXCEPT ![w] = FALSE]
    /\ UNCHANGED <<run, pending, sessVars, cadVars, evVars, dispVars, send_err>>

\* ------------------------------------------------- history of the cadence
\* The step ends the iteration with thread::sleep(interval).
CadSleep(w) ==
    /\ slept' = [slept EXCEPT ![w] = Some(interval'[w])]
    /\ read_n' = [read_n EXCEPT ![w] = None]
    /\ UNCHANGED <<pollVars, sessVars, evVars, dispVars, send_err>>

\* The step calls read_console_lines(lines).
CadRead(w) ==
    /\ slept' = [slept EXCEPT ![w] = None]
    /\ read_n' = [read_n EXCEPT ![w] = Some(lines[w])]
    /\ UNCHANGED <<pollVars, sessVars, evVars, dispVars, send_err>>

\* The step neither sleeps nor reads.
CadNone(w) ==
    /\ slept' = [slept EXCEPT ![w] = None]
    /\ read_n' = [read_n EXCEPT ![w] = None]
    /\ UNCHANGED <<pollVars, sessVars, evVars, dispVars, send_err>>

\* The command step: with no poll to make, the iteration ends with the sleep
\* (not on Stop, which leaves the loop).
CadAfterCommand(w) == IF wpc'[w] = "recv" THEN CadSleep(w) ELSE CadNone(w)

\* ----------------------------------------------------- history of a session
\* A step that clears the baseline of worker w records the baseline it cleared.
SessBaseline(w) ==
    baseline_before' = [baseline_before EXCEPT ![w] =
        IF IsSome(last_output[w]) /\ last_output'[w] = None THEN last_output[w] ELSE @]

\* The try_recv that starts an iteration: if it takes an Attach, the current_pid
\* the worker has at that moment
SessRecv(w) ==
    /\ prev_pid' = [prev_pid EXCEPT ![w] =
            IF queue[w] # <<>> /\ TryRecv(queue[w]).msg.tag = "Attach"
            THEN current_pid[w] ELSE @]
    /\ UNCHANGED <<first_poll, baseline_before, pollVars, cadVars, evVars, dispVars, send_err>>

\* The attach call of an Attach: if it succeeded, the first successful poll is
\* awaited
SessAttach(w, ok) ==
    /\ first_poll' = [first_poll EXCEPT ![w] = IF ok THEN "awaited" ELSE "idle"]
    /\ SessBaseline(w)
    /\ UNCHANGED <<prev_pid, pollVars, cadVars, evVars, dispVars, send_err>>

\* A Detach is carried out, or the re-attach of a poll failed
SessEnd(w) ==
    /\ first_poll' = [first_poll EXCEPT ![w] = "idle"]
    /\ SessBaseline(w)
    /\ UNCHANGED <<prev_pid, pollVars, cadVars, evVars, dispVars, send_err>>

\* The read of a poll: if it is the first that succeeded since the Attach,
\* whether it sent an Output event
SessRead(w, ok, scr) ==
    /\ first_poll' = [first_poll EXCEPT ![w] =
            IF ok /\ @ = "awaited" /\ ~read_console_lines(lines[w], scr).panic
            THEN IF OutputChanged(last_output[w], read_console_lines(lines[w], scr).lines)
                 THEN "emitted" ELSE "silent"
            ELSE @]
    /\ UNCHANGED <<baseline_before, prev_pid, pollVars, cadVars, evVars, dispVars, send_err>>

\* -------------------------------------------------------- the display
\* What the UI displays, with attached_pid: the state update_from_worker works on
Display == [out |-> console_output, status |-> status_message, err |-> last_error,
            att |-> attached_pid]

\* One arm of the match of update_from_worker on the event e
ApplyEvent(d, e) ==
    CASE e.tag = "Output" ->
            [d EXCEPT !.out = e.lines, !.err = None,
                      !.status = IF IsSome(d.att)
                                 THEN [msg |-> "Attached to PID - Last update",
                                       pid |-> Unwrap(d.att)]
                                 ELSE @]
      [] e.tag = "Error" -> [d EXCEPT !.err = Some(e.msg)]
      [] e.tag = "Status" -> [d EXCEPT !.status = [msg |-> e.msg, pid |-> e.pid]]
      [] e.tag = "Disconnected" ->
            [d EXCEPT !.att = None, !.status = [msg |-> "Disconnected", pid |-> 0],
                      !.err = Some("Console disconnected")]

RECURSIVE ApplyEvents(_, _)
\* The loop of update_from_worker on the pending events q, oldest first
ApplyEvents(d, q) == IF q = <<>> THEN d ELSE ApplyEvents(ApplyEvent(d, Head(q)), Tail(q))

\* ------------------------------------------------------------ RemoteConApp
\* RemoteConApp::detach_from_console on the channels: worker.send(Detach) if a
\* worker is held (an error is ignored), then self.worker = None drops the handle
\* and with it the pending events.
UiDetachQueue == 
    IF IsSome(worker) /\ SendOk(Unwrap(worker))
    THEN [queue EXCEPT ![Unwrap(worker)] = Append(@, Detach)]
    ELSE queue

UiDetachSent ==
    IF IsSome(worker) /\ SendOk(Unwrap(worker))
    THEN [sent EXCEPT ![Unwrap(worker)] = Append(@, Detach)]
    ELSE sent

\* A drop of the handle that leaves its events channel open
KeepEvents(ev, h) == ev

DropEvents(ev, h) == IF IsSome(h) THEN [ev EXCEPT ![Unwrap(h)] = <<>>] ELSE ev

\* The UI handles one more user input (a button press, a slider move); the
\* model caps their number.
UserInput == ninputs < MaxInputs /\ ninputs' = ninputs + 1

\* RemoteConApp::attach_to_console with selected_pid = Some(pid): detach from the
\* previous console if attached (console_output.clear()), ConsoleWorker::new(config),
\* send Attach(pid).  The new thread is running, so the send succeeds:
\* status_message = "Attaching to PID {pid}...".
UiAttach(pid) ==
    /\ uipc = "idle"
    /\ UserInput
    /\ nworkers < MaxWorkers
    /\ LET new == nworkers + 1
           q1 == IF IsSome(attached_pid) THEN UiDetachQueue ELSE queue
           s1 == IF IsSome(attached_pid) THEN UiDetachSent ELSE sent
       IN  /\ nworkers' = new
           /\ wpc' = [wpc EXCEPT ![new] = "recv"]
           /\ current_pid' = [current_pid EXCEPT ![new] = None]
           /\ config' = [config EXCEPT ![new] = [interval |-> refresh_interval_ms,
                                                 lines |-> lines_to_display]]
           /\ interval' = [interval EXCEPT ![new] = config'[new].interval]
           /\ lines' = [lines EXCEPT ![new] = config'[new].lines]
           /\ last_output' = [last_output EXCEPT ![new] = None]
           /\ result' = [result EXCEPT ![new] = None]
           /\ queue' = [q1 EXCEPT ![new] = <<Attach(pid)>>]
           /\ sent' = [s1 EXCEPT ![new] = <<Attach(pid)>>]
           /\ events' = DropEvents(events, worker)
           /\ worker' = Some(new)
           /\ attached_pid' = Some(pid)
           /\ console_output' = IF IsSome(attached_pid) THEN <<>> ELSE console_output
           /\ status_message' = [msg |-> "Attaching to PID", pid |-> pid]
    /\ UNCHANGED <<procVars, refresh_interval_ms, lines_to_display, last_error,
                   uipc, sending, cmd, applied, pureVars>>

\* RemoteConApp::detach_from_console, from the Detach button (enabled while
\* attached_pid is Some): console_output.clear(), status_message = "Not attached"
UiDetach ==
    /\ uipc = "idle"
    /\ IsSome(attached_pid)
    /\ UserInput
    /\ queue' = UiDetachQueue
    /\ sent' = UiDetachSent
    /\ events' = DropEvents(events, worker)
    /\ worker' = None
    /\ attached_pid' = None
    /\ console_output' = <<>>
    /\ status_message' = [msg |-> "Not attached", pid |-> 0]
    /\ UNCHANGED <<procVars, refresh_interval_ms, lines_to_display, last_error,
                   uipc, sending, spawnVars, workerVars, applied, pureVars>>

\* The send functions of the UI: send_command, send_command_from_top, send_ctrl_c,
\* send_ctrl_j, send_ctrl_m, send_newline_carriage_return
SendKinds == {"command", "command_top", "ctrl_c", "ctrl_j", "ctrl_m", "nlcr"}
IsCommand(kind) == kind \in {"command", "command_top"}
\* What the input field can hold
CommandInputs == {<<>>, <<ChSp>>, <<97>>, <<ChSp, 97, ChSp>>}

\* What the send function names in its error texts
SendName(kind) ==
    CASE IsCommand(kind) -> "command"
      [] kind = "ctrl_c" -> "Ctrl+C"
      [] kind = "ctrl_j" -> "Ctrl+J"
      [] kind = "ctrl_m" -> "Ctrl+M"
      [] kind = "nlcr" -> "\\n\\r"

\* format!("Failed to attach for {}: {}", name, e) without the text of e
AttachErrorText(name) == "Failed to attach for " \o name

\* format!("Failed to send {}: {}", name, e) without the text of e; of the two
\* writes of \n\r, the one that failed
SendErrorText(pc, name) ==
    "Failed to send " \o CASE pc = "write_lf" -> "\\n"
                           [] pc = "write_cr" -> "\\r"
                           [] OTHER -> name

\* A send function that returns before any capability call: not attached
\* (last_error = "Not attached to any console"), or the trimmed command is empty
\* (nothing changes).
UiSendRejected ==
    /\ uipc = "idle"
    /\ UserInput
    /\ \E kind \in SendKinds, text \in CommandInputs :
            \/ /\ attached_pid = None
               /\ last_error' = Some("Not attached to any console")
            \/ /\ IsSome(attached_pid)
               /\ IsCommand(kind) /\ Trim(text) = <<>>
               /\ UNCHANGED last_error
    /\ UNCHANGED <<procVars, worker, attached_pid, refresh_interval_ms,
                   lines_to_display, console_output, status_message, uipc, sending,
                   spawnVars, workerVars, chanVars, pureVars>>

\* A send function, attached: match attach_to_console(pid); on Err
\* last_error = "Failed to attach for ..." and the function returns
UiSendAttach(kind) ==
    /\ uipc = "idle"
    /\ UserInput
    /\ IsSome(attached_pid)
    /\ IsCommand(kind) => \E text \in CommandInputs : Trim(text) # <<>>
    /\ \E free_ok \in BOOLEAN, ok \in BOOLEAN :
        /\ ok \in AttachOutcomes(free_ok)
        /\ binding' = attach_to_console(Unwrap(attached_pid), ok, free_ok)
        /\ uipc' = IF ~ok THEN "idle" ELSE IF kind = "nlcr" THEN "write_lf" ELSE "write"
        /\ sending' = IF ok THEN Some(SendName(kind)) ELSE None
        /\ last_error' = IF ok THEN last_error
                         ELSE Some(AttachErrorText(SendName(kind)))
    /\ UNCHANGED <<worker, attached_pid, refresh_interval_ms, lines_to_display,
                   console_output, status_message, spawnVars, workerVars, chanVars,
                   pureVars>>

\* send_command(command) / send_ctrl_c() / send_control_char(c): the keys go to the
\* input buffer of the bound console.  Ok: last_error = None (after the 0x0D for
\* \n\r, which is sent only if the 0x0A succeeded); Err: last_error =
\* "Failed to send ...".
UiSendWrite ==
    /\ uipc \in {"write", "write_lf", "write_cr"}
    /\ \E ok \in IoOutcomes :
        /\ uipc' = IF uipc = "write_lf" /\ ok THEN "write_cr" ELSE "detach"
        /\ last_error' = IF ~ok THEN Some(SendErrorText(uipc, Unwrap(sending)))
                         ELSE IF uipc = "write_lf" THEN last_error
                         ELSE None
    /\ sending' = IF uipc' = "detach" THEN None ELSE sending
    /\ UNCHANGED <<procVars, ninputs, worker, attached_pid, refresh_interval_ms,
                   lines_to_display, console_output, status_message, spawnVars,
                   workerVars, chanVars, pureVars>>

\* let _ = detach_from_console() at the end of a send function
UiSendDetach ==
    /\ uipc = "detach"
    /\ \E ok \in BOOLEAN : binding' = detach_from_console(ok)
    /\ uipc' = "idle"
    /\ UNCHANGED <<worker, attached_pid, refresh_interval_ms, lines_to_display,
                   dispFields, sending, ninputs, spawnVars, workerVars, chanVars, pureVars>>

\* RemoteConApp::update_from_worker: every pending event is taken and applied,
\* oldest first; a Disconnected among them sets attached_pid = None and, after
\* the loop, self.worker = None.
UiUpdateFromWorker ==
    /\ uipc = "idle"
    /\ IsSome(worker)
    /\ LET w == Unwrap(worker)
           disconnected == \E i \in 1..Len(events[w]) : events[w][i].tag = "Disconnected"
           d == ApplyEvents(Display, events[w])
       IN  /\ events' = [events EXCEPT ![w] = <<>>]
           /\ console_output' = d.out
           /\ status_message' = d.status
           /\ last_error' = d.err
           /\ attached_pid' = d.att
           /\ worker' = IF disconnected THEN None ELSE worker
    /\ UNCHANGED <<procVars, refresh_interval_ms, lines_to_display, uipc, sending,
                   ninputs, spawnVars, workerVars, queue, sent, applied, pureVars>>

\* The lines slider of render_console_viewer: Slider::new(&mut
\* self.lines_to_display, 10..=500); no message is sent
UiSetLines(n) ==
    /\ uipc = "idle"
    /\ UserInput
    /\ n # lines_to_display
    /\ lines_to_display' = n
    /\ UNCHANGED <<procVars, worker, attached_pid, refresh_interval_ms, dispFields,
                   uipc, sending, spawnVars, workerVars, chanVars, pureVars>>

\* The interval slider of render_console_viewer, changed() to d:
\* refresh_interval_ms = d and, if a worker is held, let _ =
\* worker.send(SetInterval(d))
UiSetInterval(d) ==
    /\ uipc = "idle"
    /\ UserInput
    /\ d # refresh_interval_ms
    /\ refresh_interval_ms' = d
    /\ IF IsSome(worker)
       THEN LET w == Unwrap(worker) IN
            IF SendOk(w)
            THEN /\ queue' = [queue EXCEPT ![w] = Append(@, SetInterval(d))]
                 /\ sent' = [sent EXCEPT ![w] = Append(@, SetInterval(d))]
            ELSE UNCHANGED <<queue, sent>>
       ELSE UNCHANGED <<queue, sent>>
    /\ UNCHANGED <<procVars, worker, attached_pid, lines_to_display, dispFields,
                   uipc, sending, spawnVars, workerVars, events, applied, pureVars>>

\* ------------------------------------------------ history of the display
\* A step of the UI that takes no event
DispNone ==
    /\ applied_from' = {}
    /\ UNCHANGED <<origin, pollVars, sessVars, cadVars, evVars, send_err>>

\* update_from_worker: the workers whose events it applied
DispUpdate ==
    LET w == Unwrap(worker)
    IN  /\ applied_from' = IF events[w] = <<>> THEN {} ELSE origin[w]
        /\ UNCHANGED <<origin, pollVars, sessVars, cadVars, evVars, send_err>>

\* A step of worker w: the channel its event went into, if it sent one
DispWorker(w) ==
    /\ origin' = [v \in Workers |->
                    IF Len(events'[v]) > Len(events[v]) THEN origin[v] \cup {w}
                    ELSE origin[v]]
    /\ UNCHANGED <<applied_from, pollVars, sessVars, cadVars, evVars, send_err>>

\* ------------------------------------------- a client of ConsoleWorker (SpecHandle)
\* ConsoleWorker::send(msg) by the holder of the handle; send_err records
\* whether it returned Err
ClientSend(m) ==
    /\ IsSome(worker)
    /\ LET w == Unwrap(worker) IN
        /\ Len(sent[w]) < MaxSends
        /\ IF SendOk(w)
           THEN /\ queue' = [queue EXCEPT ![w] = Append(@, m)]
                /\ sent' = [sent EXCEPT ![w] = Append(@, m)]
           ELSE UNCHANGED <<queue, sent>>      \* Err: no receiver
        /\ send_err' = [send_err EXCEPT ![w] = ~SendOk(w)]
    /\ UNCHANGED <<procVars, uiVars, spawnVars, workerVars, events, applied,
                   pollVars, sessVars, cadVars,
                   evVars, dispVars, pureVars>>

\* A receive that returns the newest event
RecvEventNewest(q) ==
    IF q = <<>> THEN [msg |-> None, rest |-> q]
    ELSE [msg |-> Some(q[Len(q)]), rest |-> SubSeq(q, 1, Len(q) - 1)]

\* worker_rx.try_recv().ok() on the events channel q: None if it is empty, else
\* the oldest event, which leaves the channel
RecvEvent(q) ==
    IF q = <<>> THEN [msg |-> None, rest |-> q]
    ELSE [msg |-> Some(Head(q)), rest |-> Tail(q)]

\* ConsoleWorker::try_recv() by the holder of the handle: it returns at once
ClientTryRecv ==
    /\ IsSome(worker)
    /\ events' = [events EXCEPT ![Unwrap(worker)] = RecvEvent(@).rest]
    /\ UNCHANGED <<procVars, uiVars, spawnVars, workerVars, queue, sent, applied,
                   pureVars>>

\* ------------------------------------------- history of the events channel
\* A step of worker w: the event it sent to the handle, if any
EvSent(w) ==
    /\ emitted' = [emitted EXCEPT ![w] =
            IF events'[w] # events[w] /\ Len(@) < MaxEmitted
            THEN Append(@, events'[w][Len(events'[w])]) ELSE @]
    /\ UNCHANGED <<taken, got, pollVars, sessVars, cadVars, dispVars, send_err>>

\* ConsoleWorker::try_recv(): what it returned
EvTaken ==
    LET w == Unwrap(worker)
        r == RecvEvent(events[w])
    IN  /\ got' = r.msg
        /\ taken' = [taken EXCEPT ![w] =
                IF IsSome(r.msg) /\ Len(@) < MaxEmitted
                THEN Append(@, Unwrap(r.msg)) ELSE @]
        /\ UNCHANGED <<emitted, pollVars, sessVars, cadVars, dispVars, send_err>>

\* The holder drops the ConsoleWorker (no Drop impl: both channel ends close,
\* the thread is detached).
ClientDrop ==
    /\ IsSome(worker)
    /\ events' = DropEvents(events, worker)
    /\ worker' = None
    /\ UNCHANGED <<procVars, attached_pid, refresh_interval_ms, lines_to_display,
                   dispFields, uipc, sending, ninputs, spawnVars, workerVars, queue, sent,
                   applied, histVars, pureVars>>

\* ------------------------------------------------------------------ specs
\* RemoteConApp::default(): nothing displayed
DisplayDefault ==
    /\ console_output = <<>>
    /\ status_message = [msg |-> "Not attached", pid |-> 0]
    /\ last_error = None
    /\ sending = None
    /\ ninputs = 0
    /\ applied_from = {}

DiffIdle ==
    /\ dpc = "off"
    /\ dprev = <<>> /\ dcur = <<>> /\ dlast = None /\ dchanged = FALSE

ReadIdle ==
    /\ rpc = "off"
    /\ rn = 1 /\ rscr = ScreenAB /\ rout = None

WorkersUnborn ==
    /\ config = [w \in Workers |-> WorkerConfigDefault]
    /\ wpc = [w \in Workers |-> "unborn"]
    /\ cmd = [w \in Workers |-> None]
    /\ current_pid = [w \in Workers |-> None]
    /\ interval = [w \in Workers |-> config[w].interval]
    /\ lines = [w \in Workers |-> config[w].lines]
    /\ last_output = [w \in Workers |-> None]
    /\ result = [w \in Workers |-> None]
    /\ queue = [w \in Workers |-> <<>>]
    /\ events = [w \in Workers |-> <<>>]
    /\ sent = [w \in Workers |-> <<>>]
    /\ applied = [w \in Workers |-> <<>>]
    /\ read_failed = [w \in Workers |-> FALSE]
    /\ run = [w \in Workers |-> NoRun]
    /\ pending = [w \in Workers |-> 0]
    /\ send_err = [w \in Workers |-> FALSE]
    /\ first_poll = [w \in Workers |-> "idle"]
    /\ baseline_before = [w \in Workers |-> None]
    /\ prev_pid = [w \in Workers |-> None]
    /\ slept = [w \in Workers |-> None]
    /\ read_n = [w \in Workers |-> None]
    /\ emitted = [w \in Workers |-> <<>>]
    /\ taken = [w \in Workers |-> <<>>]
    /\ got = None
    /\ origin = [w \in Workers |-> {}]
    /\ DisplayDefault

\* RemoteConApp::default(), no worker yet; the process has no console.
Init ==
    /\ binding = None
    /\ worker = None
    /\ attached_pid = None
    /\ refresh_interval_ms = DefaultRefreshIntervalMs
    /\ lines_to_display = DefaultLinesToDisplay
    /\ uipc = "idle"
    /\ nworkers = 0
    /\ WorkersUnborn
    /\ DiffIdle
    /\ ReadIdle

\* The UI thread and the workers it spawns.  The UI sends a worker one Attach and
\* at most one Detach, never a second Attach nor Stop: the steps WAttachDetach
\* and WStopDetach are steps of SpecHandle only.
WorkerStepUi(w) ==
    \/ WRecv(w)
    \/ \E ok \in BOOLEAN : WAttach(w, ok)
    \/ \E ok \in BOOLEAN : WDetach(w, ok)
    \/ \E ok \in BOOLEAN : WPoll(w, ok)
    \/ \E ok \in BOOLEAN, scr \in UiScreens : WRead(w, ok, scr)
    \/ \E ok \in BOOLEAN : WPollDetach(w, ok)

\* The program: the UI thread, with every handler of RemoteConApp, and the
\* workers it spawns.
Next ==
    \/ \E p \in Pids : UiAttach(p) /\ UNCHANGED histVars
    \/ UiDetach /\ UNCHANGED histVars
    \/ UiSendRejected /\ UNCHANGED histVars
    \/ \E k \in SendKinds : UiSendAttach(k) /\ UNCHANGED histVars
    \/ UiSendWrite /\ UNCHANGED histVars
    \/ UiSendDetach /\ UNCHANGED histVars
    \/ UiUpdateFromWorker /\ UNCHANGED histVars
    \/ \E n \in LinesToDisplayValues : UiSetLines(n) /\ UNCHANGED histVars
    \/ \E d \in Durations : UiSetInterval(d) /\ UNCHANGED histVars
    \/ \E w \in Workers : WorkerStepUi(w) /\ UNCHANGED histVars

Spec == Init /\ [][Next]_vars

\* The program, with the history of the display.
NextDisplay ==
    \/ \E p \in Pids : UiAttach(p) /\ DispNone
    \/ UiDetach /\ DispNone
    \/ UiSendRejected /\ DispNone
    \/ \E k \in SendKinds : UiSendAttach(k) /\ DispNone
    \/ UiSendWrite /\ DispNone
    \/ UiSendDetach /\ DispNone
    \/ UiUpdateFromWorker /\ DispUpdate
    \/ \E n \in LinesToDisplayValues : UiSetLines(n) /\ DispNone
    \/ \E d \in Durations : UiSetInterval(d) /\ DispNone
    \/ \E w \in Workers : WorkerStepUi(w) /\ DispWorker(w)

SpecDisplay == Init /\ [][NextDisplay]_vars

\* One ConsoleWorker::new(c) and its holder, which may send any message.
InitWorker(c) ==
    /\ config = [w \in Workers |-> IF w = 1 THEN c ELSE WorkerConfigDefault]
    /\ binding = None
    /\ worker = Some(1)
    /\ attached_pid = None
    /\ refresh_interval_ms = DefaultRefreshIntervalMs
    /\ lines_to_display = DefaultLinesToDisplay
    /\ uipc = "idle"
    /\ nworkers = 1
    /\ wpc = [w \in Workers |-> IF w = 1 THEN "recv" ELSE "unborn"]
    /\ cmd = [w \in Workers |-> None]
    /\ current_pid = [w \in Workers |-> None]
    /\ interval = [w \in Workers |-> config[w].interval]
    /\ lines = [w \in Workers |-> config[w].lines]
    /\ last_output = [w \in Workers |-> None]
    /\ result = [w \in Workers |-> None]
    /\ queue = [w \in Workers |-> <<>>]
    /\ events = [w \in Workers |-> <<>>]
    /\ sent = [w \in Workers |-> <<>>]
    /\ applied = [w \in Workers |-> <<>>]
    /\ read_failed = [w \in Workers |-> FALSE]
    /\ run = [w \in Workers |-> NoRun]
    /\ pending = [w \in Workers |-> 0]
    /\ send_err = [w \in Workers |-> FALSE]
    /\ first_poll = [w \in Workers |-> "idle"]
    /\ baseline_before = [w \in Workers |-> None]
    /\ prev_pid = [w \in Workers |-> None]
    /\ slept = [w \in Workers |-> None]
    /\ read_n = [w \in Workers |-> None]
    /\ emitted = [w \in Workers |-> <<>>]
    /\ taken = [w \in Workers |-> <<>>]
    /\ got = None
    /\ origin = [w \in Workers |-> {}]
    /\ DisplayDefault
    /\ DiffIdle
    /\ ReadIdle

\* ConsoleWorker::new(WorkerConfig::default())
InitHandle == InitWorker(WorkerConfigDefault)

\* ConsoleWorker::new(c), c any WorkerConfig
InitConfig == \E c \in WorkerConfigs : InitWorker(c)

\* The steps of the worker, with the history of its polls
WorkerStepHist(w) ==
    \/ WRecv(w) /\ HistRecv(w)
    \/ \E ok \in BOOLEAN : WAttachDetach(w, ok) /\ HistReset(w)
    \/ \E ok \in BOOLEAN : WAttach(w, ok) /\ HistReset(w)
    \/ \E ok \in BOOLEAN : WDetach(w, ok) /\ HistReset(w)
    \/ \E ok \in BOOLEAN : WStopDetach(w, ok) /\ UNCHANGED histVars
    \/ WPoll(w, TRUE) /\ UNCHANGED histVars
    \/ WPoll(w, FALSE) /\ HistReset(w)
    \/ \E ok \in BOOLEAN, scr \in Screens : WRead(w, ok, scr) /\ HistRead(w, ok, scr)
    \/ \E ok \in BOOLEAN : WPollDetach(w, ok) /\ HistPollEnd(w)

NextHandle ==
    \/ \E m \in UiMessage : ClientSend(m)
    \/ ClientTryRecv /\ UNCHANGED histVars
    \/ ClientDrop
    \/ WorkerStepHist(1)

SpecHandle == InitHandle /\ [][NextHandle]_vars

\* One ConsoleWorker and its holder, with the history of the polls.  The worker
\* thread always gets to run, and the holder of the handle keeps taking the
\* events.
SpecHandleFair ==
    /\ InitHandle /\ [][NextHandle]_vars
    /\ WF_vars(WorkerStepHist(1))
    /\ WF_vars(ClientTryRecv /\ UNCHANGED histVars)

\* The UI thread and the workers it spawns.  Every worker thread always gets to
\* run.
SpecFair ==
    /\ Init /\ [][Next]_vars
    /\ \A w \in Workers : WF_vars(WorkerStepUi(w) /\ UNCHANGED histVars)

\* The steps of the worker, with the history of its session
WorkerStepSess(w) ==
    \/ WRecv(w) /\ SessRecv(w)
    \/ \E ok \in BOOLEAN : WAttachDetach(w, ok) /\ UNCHANGED histVars
    \/ \E ok \in BOOLEAN : WAttach(w, ok) /\ SessAttach(w, ok)
    \/ \E ok \in BOOLEAN : WDetach(w, ok) /\ SessEnd(w)
    \/ \E ok \in BOOLEAN : WStopDetach(w, ok) /\ UNCHANGED histVars
    \/ WPoll(w, TRUE) /\ UNCHANGED histVars
    \/ WPoll(w, FALSE) /\ SessEnd(w)
    \/ \E ok \in BOOLEAN, scr \in Screens : WRead(w, ok, scr) /\ SessRead(w, ok, scr)
    \/ \E ok \in BOOLEAN : WPollDetach(w, ok) /\ UNCHANGED histVars

NextSession ==
    \/ \E m \in UiMessage : ClientSend(m)
    \/ ClientTryRecv /\ UNCHANGED histVars
    \/ ClientDrop
    \/ WorkerStepSess(1)

\* One ConsoleWorker and its holder, with the history of the session
SpecSession == InitHandle /\ [][NextSession]_vars

\* The steps of the worker, with the history of the cadence.  A failed
\* re-attach leaves the iteration with continue, before the sleep.
WorkerStepCad(w) ==
    \/ WRecv(w) /\ CadAfterCommand(w)
    \/ \E ok \in BOOLEAN : WAttachDetach(w, ok) /\ CadNone(w)
    \/ \E ok \in BOOLEAN : WAttach(w, ok) /\ CadAfterCommand(w)
    \/ \E ok \in BOOLEAN : WDetach(w, ok) /\ CadSleep(w)
    \/ \E ok \in BOOLEAN : WStopDetach(w, ok) /\ CadNone(w)
    \/ \E ok \in BOOLEAN : WPoll(w, ok) /\ CadNone(w)
    \/ \E ok \in BOOLEAN, scr \in Screens : WRead(w, ok, scr) /\ CadRead(w)
    \/ \E ok \in BOOLEAN : WPollDetach(w, ok) /\ CadSleep(w)

NextCadence ==
    \/ \E m \in UiMessage : ClientSend(m)
    \/ ClientTryRecv /\ UNCHANGED histVars
    \/ ClientDrop
    \/ WorkerStepCad(1)

\* One ConsoleWorker and its holder, with the history of the cadence
SpecCadence == InitConfig /\ [][NextCadence]_vars

\* The steps of the worker, with the history of the events it sends
WorkerStepEv(w) ==
    \/ WRecv(w) /\ EvSent(w)
    \/ \E ok \in BOOLEAN : WAttachDetach(w, ok) /\ EvSent(w)
    \/ \E ok \in BOOLEAN : WAttach(w, ok) /\ EvSent(w)
    \/ \E ok \in BOOLEAN : WDetach(w, ok) /\ EvSent(w)
    \/ \E ok \in BOOLEAN : WStopDetach(w, ok) /\ EvSent(w)
    \/ \E ok \in BOOLEAN : WPoll(w, ok) /\ EvSent(w)
    \/ \E ok \in BOOLEAN, scr \in Screens : WRead(w, ok, scr) /\ EvSent(w)
    \/ \E ok \in BOOLEAN : WPollDetach(w, ok) /\ EvSent(w)

NextEvents ==
    \/ \E m \in UiMessage : ClientSend(m)
    \/ ClientTryRecv /\ EvTaken
    \/ ClientDrop
    \/ WorkerStepEv(1)

\* One ConsoleWorker and its holder, with the history of the events channel
SpecEvents == InitHandle /\ [][NextEvents]_vars

\* The steps of the worker, the history variables left alone
WorkerStep(w) ==
    /\ \/ WRecv(w)
       \/ \E ok \in BOOLEAN : WAttachDetach(w, ok)
       \/ \E ok \in BOOLEAN : WAttach(w, ok)
       \/ \E ok \in BOOLEAN : WDetach(w, ok)
       \/ \E ok \in BOOLEAN : WStopDetach(w, ok)
       \/ \E ok \in BOOLEAN : WPoll(w, ok)
       \/ \E ok \in BOOLEAN, scr \in Screens : WRead(w, ok, scr)
       \/ \E ok \in BOOLEAN : WPollDetach(w, ok)
    /\ UNCHANGED histVars

NextWorker ==
    \/ \E m \in UiMessage : ClientSend(m)
    \/ ClientTryRecv /\ UNCHANGED histVars
    \/ ClientDrop
    \/ WorkerStep(1)

\* One ConsoleWorker and its holder.  The worker thread always gets to run, and
\* the holder of the handle keeps taking the events (the UI calls
\* update_from_worker on every frame).
SpecWorkerFair ==
    /\ InitHandle /\ [][NextWorker]_vars
    /\ WF_vars(WorkerStep(1))
    /\ WF_vars(ClientTryRecv /\ UNCHANGED histVars)


\* ------------------------------------------------- the change test alone
\* Sequences over S of length at most n
BoundedSeq(S, n) == UNION {[1..k -> S] : k \in 0..n}
\* Lines of the letter a and the line feed, and sequences of such lines
DiffLines == BoundedSeq({97, ChLf}, MaxDiffLen)
DiffLineSeqs == BoundedSeq(DiffLines, MaxDiffLines)

\* Two polls in a row of an attached worker whose baseline is empty: the first
\* reads dprev, the second dcur.
InitDiff ==
    /\ binding = None
    /\ worker = None
    /\ attached_pid = None
    /\ refresh_interval_ms = DefaultRefreshIntervalMs
    /\ lines_to_display = DefaultLinesToDisplay
    /\ uipc = "idle"
    /\ nworkers = 0
    /\ WorkersUnborn
    /\ dpc = "first"
    /\ dprev \in DiffLineSeqs
    /\ dcur \in DiffLineSeqs
    /\ dlast = None
    /\ dchanged = FALSE
    /\ ReadIdle

\* The Ok arm of match read_console_lines(lines), on output_lines
DiffPoll(output_lines, next) ==
    /\ dchanged' = OutputChanged(dlast, output_lines)
    /\ dlast' = IF dchanged' THEN Some(Join(output_lines, <<ChLf>>)) ELSE dlast
    /\ dpc' = next
    /\ UNCHANGED <<dprev, dcur, procVars, uiVars, spawnVars, workerVars, chanVars,
                   histVars, readVars>>

DiffFirst == dpc = "first" /\ DiffPoll(dprev, "second")
DiffSecond == dpc = "second" /\ DiffPoll(dcur, "done")

NextDiff == DiffFirst \/ DiffSecond

SpecDiff == InitDiff /\ [][NextDiff]_vars


\* ------------------------------------------------ read_console_lines alone
\* Rows of cells: a and padding, b and a NUL, an empty row
ReadRows == {<<97, ChSp>>, <<98, ChNul>>, <<ChSp, ChSp>>}
\* Screen buffers of MaxRows rows, the cursor on any of them
ReadScreens == {[rows |-> rs, cursor |-> c] : rs \in [1..MaxRows -> ReadRows], c \in 0..(MaxRows - 1)}
\* The line counts of a call: those a SetLines message carries, the default,
\* and the two whose `as i16` is -2 and -1
ReadLineCounts == LineCounts \cup {WorkerDefaultLines, 2 * I16Max, 2 * I16Max + 1}

\* One call of read_console_lines(rn) on the screen buffer rscr
InitRead ==
    /\ binding = None
    /\ worker = None
    /\ attached_pid = None
    /\ refresh_interval_ms = DefaultRefreshIntervalMs
    /\ lines_to_display = DefaultLinesToDisplay
    /\ uipc = "idle"
    /\ nworkers = 0
    /\ WorkersUnborn
    /\ DiffIdle
    /\ rpc = "call"
    /\ rn \in ReadLineCounts
    /\ rscr \in ReadScreens
    /\ rout = None

\* read_console_lines(num_lines): Err if CONOUT$ cannot be opened or read (ok
\* is FALSE), else Ok(lines) or a panic
ReadCall(ok) ==
    /\ rpc = "call"
    /\ LET r == read_console_lines(rn, rscr)
       IN  /\ rpc' = IF ~ok THEN "err" ELSE IF r.panic THEN "panic" ELSE "ok"
           /\ rout' = IF ok /\ ~r.panic THEN Some(r.lines) ELSE None
    /\ UNCHANGED <<rn, rscr, procVars, uiVars, spawnVars, workerVars, chanVars,
                   histVars, diffVars>>

NextRead == \E ok \in BOOLEAN : ReadCall(ok)

SpecRead == InitRead /\ [][NextRead]_vars


\* ------------------------------------------------------------------ claims
Last(q) == q[Len(q)]
\* The thread of worker w is running worker_main.
Running(w) == wpc[w] \notin {"unborn", "exited", "panicked"}
\* Worker w is inside the call sequence of a poll: attached, not yet detached.
InPollSequence(w) == wpc[w] \in {"read", "poll_detach"}
\* The UI thread is between the attach and the write of a send function.
UiAboutToWrite == uipc \in {"write", "write_lf", "write_cr"}

\* C1: every console capability call is made by the session worker only: the UI
\* thread is never inside a call sequence of its own, and two threads are never
\* inside a capability call sequence at the same time.
C1_CapabilityCallsByWorkerOnly ==
    /\ uipc = "idle"
    /\ Cardinality({w \in Workers : InPollSequence(w)}) <= 1

\* C2: when a send function of the UI, attached to pid, is about to write, the
\* console binding is live and bound to pid.
C2_SendWhileBound == UiAboutToWrite => binding = attached_pid

\* C3: when a worker is about to read for a poll, the console binding is the
\* one of its current_pid: nothing rebound or released it since its attach.
C3_ReadFromOwnConsole ==
    \A w \in Workers : wpc[w] = "read" => binding = current_pid[w]

\* C4: at no instant are two distinct pids recorded as attached, counting the
\* current_pid of every worker thread still running.
C4_AtMostOnePidAttached ==
    Cardinality({Unwrap(current_pid[w]) :
                    w \in {v \in Workers : Running(v) /\ IsSome(current_pid[v])}}) <= 1

\* C5: whenever the worker is between loop iterations, the console binding is
\* exactly its tracked state: bound to pid iff current_pid = Some(pid), unbound
\* iff current_pid = None.
C5_BindingMatchesState ==
    \A w \in Workers : wpc[w] = "recv" => binding = current_pid[w]

\* C6: the commands accepted by send are applied in the order they were sent
\* (what was sent is what was applied followed by what is queued), and while a
\* command's capability call is pending no later command has been taken.
C6_FifoOrder ==
    \A w \in Workers :
        /\ sent[w] = applied[w] \o queue[w]
        /\ wpc[w] \in {"attach_detach", "attach"} =>
                applied[w] # <<>> /\ IsSome(cmd[w])
                    /\ Last(applied[w]) = Attach(Unwrap(cmd[w]))
        /\ wpc[w] = "detach" => applied[w] # <<>> /\ Last(applied[w]) = Detach
        /\ wpc[w] = "stop_detach" => applied[w] # <<>> /\ Last(applied[w]) = Stop

\* Two different commands were sent and both have been applied.
C6_Witness ==
    \E w \in Workers :
        /\ Len(applied[w]) >= 2
        /\ applied[w][1] # applied[w][2]
        /\ wpc[w] = "recv"

\* C7: the worker applies every command queued at the start of an iteration
\* before the poll of that iteration: during the poll none of them still waits.
C7_DrainBeforePoll ==
    \A w \in Workers : wpc[w] \in {"poll", "read", "poll_detach"} => pending[w] = 0

\* C8: when the read of a poll failed, the worker is Detached (current_pid is
\* None), last_output is cleared and the event it sent is Disconnected.
C8_ReadFailureDisconnects ==
    \A w \in Workers :
        read_failed[w] =>
            /\ current_pid[w] = None
            /\ last_output[w] = None
            /\ HandleHeld(w) => events[w] # <<>> /\ Last(events[w]).tag = "Disconnected"

\* C9: in a run of consecutive successful polls that return the same lines, with
\* no Attach, Detach or disconnect in between, at most one Output event is emitted.
C9_OneOutputPerRun == \A w \in Workers : run[w].outputs <= 1

\* A second poll in a row returned the lines of the first, which had been
\* reported by an Output event.
C9_Witness == \E w \in Workers : run[w].polls >= 2 /\ run[w].outputs = 1

\* C10: the change test reports changed if and only if the two line sequences
\* differ (in length or at some index).
C10_ChangeTestIsSequenceEquality ==
    dpc = "done" => (dchanged <=> dprev # dcur)

\* C11: after an Attach succeeded, the first successful poll always sends an
\* Output event, whatever the lines it read (never a silent first poll).
C11_FirstPollEmits == \A w \in Workers : first_poll[w] # "silent"

\* The first successful poll after a re-attach sent an Output event for lines
\* equal to the baseline that was cleared before.
C11_Witness ==
    \E w \in Workers :
        /\ first_poll[w] = "emitted"
        /\ IsSome(baseline_before[w])
        /\ last_output[w] = baseline_before[w]

\* The session of the UI is Detached: it holds no worker, or the worker it holds
\* has current_pid = None.
SessionDetached == worker = None \/ current_pid[Unwrap(worker)] = None

\* C12: a send of the UI issued while the session is Detached never reaches the
\* console capability layer: the UI thread is inside the call sequence of a send
\* function (attach made, write or detach to come) only while the session is
\* Attached.
C12_DetachedSendMakesNoCall == uipc # "idle" => ~SessionDetached

\* The step is the attach call of an Attach that worker w is processing.
AttachCallStep(w) == wpc[w] = "attach" /\ wpc'[w] # "attach"

\* C13: the attach call of an Attach(pid) that succeeded (it returned Ok: the
\* console is bound to pid) leaves current_pid = Some(pid) and sends exactly one Status event
\* naming pid; one that failed leaves current_pid = None and sends exactly one
\* Error event.
C13_AttachOutcome ==
    [][\A w \in Workers :
            AttachCallStep(w) =>
                LET pid == Unwrap(cmd[w]) IN
                    IF result'[w] = Some(TRUE)
                    THEN /\ binding' = Some(pid)
                         /\ current_pid'[w] = Some(pid)
                         /\ HandleHeld(w) =>
                                events'[w] = Append(events[w], Status("Attached to PID", pid))
                    ELSE /\ binding' \in {None, binding}
                         /\ current_pid'[w] = None
                         /\ HandleHeld(w) =>
                                events'[w] = Append(events[w], Error("Failed to attach"))]_vars

\* An Attach taken while the worker was attached has just failed: the worker is
\* Detached and the pending event is the Error.
C13_Witness ==
    \E w \in Workers :
        /\ wpc[w] = "recv"
        /\ applied[w] # <<>> /\ Last(applied[w]).tag = "Attach"
        /\ IsSome(prev_pid[w])
        /\ current_pid[w] = None
        /\ events[w] = <<Error("Failed to attach")>>

\* The step is the try_recv by which worker w takes a Detach while Detached.
TakesDetachWhileDetached(w) ==
    /\ wpc[w] = "recv"
    /\ current_pid[w] = None
    /\ applied'[w] = Append(applied[w], Detach)

\* C14: processing Detach while Detached makes no capability call and changes no
\* state, and sends one no-op status event.
C14_DetachWhileDetached ==
    [][\A w \in Workers :
            TakesDetachWhileDetached(w) =>
                /\ wpc'[w] = "recv"
                /\ binding' = binding
                /\ current_pid'[w] = None
                /\ last_output'[w] = last_output[w]
                /\ HandleHeld(w) =>
                        /\ Len(events'[w]) = Len(events[w]) + 1
                        /\ Last(events'[w]).tag = "Status"]_vars

\* The handle of worker w, which was spawned, has been dropped.
HandleDropped(w) == wpc[w] # "unborn" /\ ~HandleHeld(w)

\* C15: once the handle of the worker (worker 1 of SpecWorkerFair) is dropped,
\* the worker thread eventually leaves worker_main, with no console left
\* attached.
C15_DropStopsWorker ==
    HandleDropped(1) ~> (wpc[1] = "exited" /\ binding = None)

\* A Stop waits in the command queue of worker w.
StopQueued(w) == \E i \in 1..Len(queue[w]) : queue[w][i] = Stop

RECURSIVE UpToStop(_)
\* The commands of q up to and including the first Stop.
UpToStop(q) ==
    IF q = <<>> THEN <<>>
    ELSE IF Head(q) = Stop THEN <<Stop>>
    ELSE <<Head(q)>> \o UpToStop(Tail(q))

\* C16: a Stop that is queued for the worker (worker 1 of SpecWorkerFair) is
\* eventually processed and the worker exits; a command is taken only at the command-handling step, so a poll in progress
\* is completed first; on Stop the worker goes to the detach if current_pid is
\* Some and then out of the loop; once it has exited it has applied the commands
\* up to the first Stop and no later one, and it makes no step any more: no
\* capability call, no event, no command.
C16_StopEndsWorker ==
    /\ StopQueued(1) ~> (wpc[1] = "exited")
    /\ [](\A w \in Workers : wpc[w] = "exited" => applied[w] = UpToStop(sent[w]))
    /\ [][\A w \in Workers :
            /\ applied'[w] # applied[w] => wpc[w] = "recv"
            /\ applied'[w] = Append(applied[w], Stop) =>
                    wpc'[w] = IF IsSome(current_pid[w]) THEN "stop_detach" ELSE "exited"
            /\ wpc[w] = "stop_detach" /\ wpc'[w] # wpc[w] => wpc'[w] = "exited"
            /\ wpc[w] = "exited" =>
                    /\ wpc'[w] = "exited"
                    /\ binding' = binding
                    /\ applied'[w] = applied[w]
                    /\ Len(events'[w]) <= Len(events[w])]_vars

\* C17: ConsoleWorker::send returns Err only when the worker thread has ended
\* (it returned from worker_main or it panicked, either of which drops ui_rx),
\* and then always: nothing is queued for an ended worker; while the worker
\* runs, a send succeeds and appends the command to the queue.
C17_SendErrIffExited ==
    /\ [](\A w \in Workers : send_err[w] => Ended(w))
    /\ [][\A w \in Workers :
            /\ Ended(w) => queue'[w] = queue[w] /\ sent'[w] = sent[w]
            /\ sent'[w] # sent[w] =>
                    /\ ~Ended(w)
                    /\ ~send_err'[w]
                    /\ sent'[w] = Append(sent[w], Last(sent'[w]))
                    /\ queue'[w] = Append(queue[w], Last(sent'[w]))]_vars

\* A send to a worker that has exited returned Err, and queued nothing.
C17_Witness ==
    \E w \in Workers : send_err[w] /\ wpc[w] = "exited" /\ queue[w] = <<>>

\* The step is a detach call of worker w, outside Stop, that failed: it
\* returned Err, and the binding is as it was.
DetachCallFailed(w) ==
    /\ wpc[w] \in {"attach_detach", "detach", "poll_detach"}
    /\ wpc'[w] # wpc[w]
    /\ result'[w] = Some(FALSE)

\* The step sends the event e on the event channel of worker w, if it is held.
Surfaces(w, e) == HandleHeld(w) => events'[w] = Append(events[w], e)

\* The part of C18 about the loop: the worker returns from the loop only on a
\* Stop, and a call of attach, re-attach or read that returned Err is reported
\* by an event.
FailuresKeepLoop ==
    \A w \in Workers :
        /\ wpc'[w] = "exited" /\ wpc[w] # "exited" => Last(applied'[w]) = Stop
        /\ AttachCallStep(w) /\ result'[w] = Some(FALSE) => Surfaces(w, Error("Failed to attach"))
        /\ wpc[w] = "poll" /\ wpc'[w] = "recv" => Surfaces(w, Disconnected)
        /\ wpc[w] = "read" /\ read_failed'[w] => Surfaces(w, Error("Read error"))

\* C18: no failed capability call ends the worker thread, and every failure of
\* an attach, a detach or a read is surfaced as an event.
C18_FailuresSurfaced ==
    [][/\ FailuresKeepLoop
       /\ \A w \in Workers :
            DetachCallFailed(w) /\ HandleHeld(w) =>
                /\ events'[w] # events[w]
                /\ Last(events'[w]).tag = "Error"]_vars

\* The step is the try_recv by which worker w, attached, takes an Attach.
TakesAttachWhileAttached(w) ==
    /\ wpc[w] = "recv"
    /\ IsSome(current_pid[w])
    /\ applied'[w] # applied[w]
    /\ Last(applied'[w]).tag = "Attach"

\* C19: an Attach(b) taken while attached to a is carried out as the detach of
\* a and then the attach of b, with no other command taken in between; the
\* attach of b is called whatever the outcome of the detach, and if it succeeds
\* the worker is attached to b.
C19_ReattachInOrder ==
    [][\A w \in Workers :
            /\ TakesAttachWhileAttached(w) =>
                    /\ wpc'[w] = "attach_detach"
                    /\ cmd'[w] = Some(Last(applied'[w]).arg)
            /\ wpc[w] = "attach_detach" /\ wpc'[w] # wpc[w] =>
                    /\ wpc'[w] = "attach"
                    /\ cmd'[w] = cmd[w]
                    /\ current_pid'[w] = None
                    /\ applied'[w] = applied[w]
            /\ AttachCallStep(w) =>
                    /\ applied'[w] = applied[w]
                    /\ IF result'[w] = Some(TRUE)
                       THEN binding' = cmd[w] /\ current_pid'[w] = cmd[w]
                       ELSE binding' \in {None, binding}]_vars

\* Attach(1) and then Attach(2) were sent; the worker, attached to 1 when it took
\* the second, is now attached to 2.
C19_Witness ==
    \E w \in Workers :
        /\ applied[w] = <<Attach(1), Attach(2)>>
        /\ prev_pid[w] = Some(1)
        /\ current_pid[w] = Some(2)
        /\ first_poll[w] = "awaited"

\* C20: at every loop-iteration boundary, a Detached worker (current_pid = None)
\* has an empty baseline (last_output = None).
C20_DetachedHasNoBaseline ==
    \A w \in Workers :
        wpc[w] = "recv" /\ current_pid[w] = None => last_output[w] = None

\* The step is the re-attach of a poll of worker w, and it failed: the worker
\* does not go on to the read.
ReattachFailed(w) == wpc[w] = "poll" /\ wpc'[w] # "poll" /\ wpc'[w] # "read"

\* C21: a failed re-attach sends exactly one Disconnected event, sets
\* current_pid to None, clears last_output and goes back to the command step
\* without a read; and a Detached worker makes a capability call only to
\* carry out an Attach.
C21_ReattachFailureDisconnects ==
    /\ [](\A w \in Workers :
            current_pid[w] = None => wpc[w] \in {"unborn", "recv", "attach", "exited"})
    /\ [][\A w \in Workers :
            /\ ReattachFailed(w) =>
                    /\ wpc'[w] = "recv"
                    /\ current_pid'[w] = None
                    /\ last_output'[w] = None
                    /\ applied'[w] = applied[w]
                    /\ HandleHeld(w) =>
                            /\ Len(events'[w]) = Len(events[w]) + 1
                            /\ Last(events'[w]).tag = "Disconnected"
            /\ wpc[w] = "recv" /\ wpc'[w] = "attach" =>
                    Last(applied'[w]).tag = "Attach" /\ applied'[w] # applied[w]]_vars

\* The re-attach of a poll has just failed: the worker, which had reported
\* lines, is Detached with no baseline and the newest event is Disconnected.
C21_Witness ==
    \E w \in Workers :
        /\ wpc[w] = "recv"
        /\ current_pid[w] = None
        /\ IsSome(baseline_before[w])
        /\ last_output[w] = None
        /\ events[w] # <<>> /\ Last(events[w]).tag = "Disconnected"

\* C22: a Detach taken while attached goes through one detach call, and that
\* call, whether it succeeds or fails, leaves current_pid = None and
\* last_output = None and sends exactly one Status event, 'Detached'.
C22_DetachWhileAttached ==
    [][\A w \in Workers :
            /\ wpc[w] = "recv" /\ IsSome(current_pid[w])
                    /\ applied'[w] = Append(applied[w], Detach) =>
                    wpc'[w] = "detach" /\ current_pid'[w] = current_pid[w]
            /\ wpc[w] = "detach" /\ wpc'[w] # "detach" =>
                    /\ wpc'[w] = "recv"
                    /\ current_pid'[w] = None
                    /\ last_output'[w] = None
                    /\ binding' \in {None, binding}
                    /\ Surfaces(w, Status("Detached", 0))]_vars

\* A Detach was carried out and its detach call failed: the console is still
\* bound, the worker is Detached and the newest event is the Status.
C22_Witness ==
    \E w \in Workers :
        /\ wpc[w] = "recv"
        /\ applied[w] # <<>> /\ Last(applied[w]) = Detach
        /\ IsSome(binding)
        /\ current_pid[w] = None /\ last_output[w] = None
        /\ events[w] # <<>> /\ Last(events[w]) = Status("Detached", 0)

\* The step is a detach call of worker w that failed: it returned Err.
AnyDetachCallFailed(w) ==
    /\ wpc[w] \in {"attach_detach", "detach", "stop_detach", "poll_detach"}
    /\ wpc'[w] # wpc[w]
    /\ result'[w] = Some(FALSE)

\* C23: a best-effort detach call of the worker that fails (before an Attach, on
\* Detach, on Stop, after a poll) sends an Error event to the handle.
C23_DetachFailureSurfaced ==
    [][\A w \in Workers :
            AnyDetachCallFailed(w) /\ HandleHeld(w) =>
                \E i \in Len(events[w]) + 1 .. Len(events'[w]) :
                    events'[w][i].tag = "Error"]_vars

\* The argument of the last message of kind tag in the sequence a of messages
\* taken, or default if there is none
LastArg(a, tag, default) ==
    LET I == {i \in 1..Len(a) : a[i].tag = tag}
    IN  IF I = {} THEN default ELSE a[CHOOSE i \in I : \A j \in I : j <= i].arg
\* The cadence the messages taken so far ask for: that of the last SetInterval,
\* the last SetLines, or else that of the WorkerConfig the worker was made with
CadenceInterval(w) == LastArg(applied[w], "SetInterval", config[w].interval)
CadenceLines(w) == LastArg(applied[w], "SetLines", config[w].lines)
\* The step of worker w takes a message of kind tag.
Takes(w, tag) == applied'[w] # applied[w] /\ Last(applied'[w]).tag = tag

\* C24: taking SetInterval(d) or SetLines(n) changes only that cadence field: no
\* capability call, no event, current_pid and last_output unchanged; every read
\* uses the line count of the last SetLines taken and every sleep lasts the
\* duration of the last SetInterval taken (the values of the WorkerConfig the
\* worker was made with if none was), and the cadence changes in no other way.
C24_CadenceCommands ==
    /\ [](\A w \in Workers :
            /\ interval[w] = CadenceInterval(w)
            /\ lines[w] = CadenceLines(w)
            /\ IsSome(slept[w]) => slept[w] = Some(CadenceInterval(w))
            /\ IsSome(read_n[w]) => read_n[w] = Some(CadenceLines(w)))
    /\ [][\A w \in Workers :
            /\ Takes(w, "SetInterval") \/ Takes(w, "SetLines") =>
                    /\ binding' = binding
                    /\ events' = events
                    /\ current_pid' = current_pid
                    /\ last_output' = last_output
                    /\ wpc'[w] \in {"recv", "poll"}
            /\ Takes(w, "SetInterval") =>
                    interval'[w] = Last(applied'[w]).arg /\ lines' = lines
            /\ Takes(w, "SetLines") =>
                    lines'[w] = Last(applied'[w]).arg /\ interval' = interval]_vars

\* An attached worker took SetLines(1) and the read of the next poll used the
\* line count 1.
C24_Witness ==
    \E w \in Workers :
        /\ applied[w] # <<>> /\ Last(applied[w]) = SetLines(1)
        /\ IsSome(current_pid[w])
        /\ wpc[w] = "poll_detach"
        /\ read_n[w] = Some(1)
        /\ lines[w] # WorkerDefaultLines

\* C29: read_console_lines(n) on a buffer whose cursor is on row c returns
\* exactly min(n, c + 1) rows, the consecutive rows that end at the cursor row,
\* oldest first, and never more than n rows.
C29_ReadReturnsLastRows ==
    /\ rpc # "panic"
    /\ rpc = "ok" =>
        LET out == Unwrap(rout)
            c == rscr.cursor
        IN  /\ Len(out) = Min(rn, c + 1)
            /\ Len(out) <= rn
            /\ \A k \in 1..Len(out) : out[k] = read_line(rscr, c - Len(out) + k)

\* The step puts an Output event at the end of the events channel of worker w.
EmitsOutput(w) == Len(events'[w]) > Len(events[w]) /\ Last(events'[w]).tag = "Output"

\* C25: last_output, when set, is the content of the last Output event the worker
\* sent: a step that sends an Output sets it to that event's lines joined, and a
\* step that sends none leaves it alone or clears it.
C25_BaselineIsLastOutput ==
    [][\A w \in Workers :
            HandleHeld(w) =>
                /\ EmitsOutput(w) =>
                        last_output'[w] = Some(Join(Last(events'[w]).lines, <<ChLf>>))
                /\ ~EmitsOutput(w) =>
                        last_output'[w] \in {last_output[w], None}]_vars

\* A poll has just sent an Output that replaced an earlier baseline: last_output
\* is the content of that event.
C25_Witness ==
    \E w \in Workers :
        /\ wpc[w] = "poll_detach"
        /\ first_poll[w] = "emitted"
        /\ Len(events[w]) = 2
        /\ events[w][1].tag = "Output" /\ events[w][2].tag = "Output"
        /\ last_output[w] = Some(Join(events[w][2].lines, <<ChLf>>))
        /\ last_output[w] # Some(Join(events[w][1].lines, <<ChLf>>))

\* p is a prefix of q.
IsPrefix(p, q) == Len(p) <= Len(q) /\ p = SubSeq(q, 1, Len(p))

\* C26: the events taken through ConsoleWorker::try_recv are the events the
\* worker sent, in the order it sent them, each once and none lost; try_recv
\* returns None exactly when no event is pending, and the oldest pending event
\* otherwise.
C26_EventsFifo ==
    /\ [](\A w \in Workers :
            HandleHeld(w) =>
                /\ IsPrefix(taken[w], emitted[w])
                /\ Len(emitted[w]) < MaxEmitted => taken[w] \o events[w] = emitted[w])
    /\ [][\A w \in Workers :
            HandleHeld(w) /\ (got' # got \/ taken' # taken) =>
                /\ events[w] = <<>> => got' = None /\ events'[w] = <<>>
                /\ events[w] # <<>> =>
                        got' = Some(Head(events[w])) /\ events'[w] = Tail(events[w])]_vars

\* Two different events were sent and both have been taken, the second last.
C26_Witness ==
    \E w \in Workers :
        /\ HandleHeld(w)
        /\ Len(taken[w]) = 2 /\ taken[w][1] # taken[w][2]
        /\ taken[w] = emitted[w]
        /\ got = Some(taken[w][2])
        /\ events[w] = <<>>

\* Worker w is attached and at the try_recv that starts an iteration.
AttachedAtRecv(w) == wpc[w] = "recv" /\ IsSome(current_pid[w])

\* The step is a successful read of worker w that returned lines other than
\* those of the successful poll before it.
ReadsChangedContent(w) ==
    /\ wpc[w] = "read" /\ wpc'[w] = "poll_detach"
    /\ ~read_failed'[w]
    /\ IsSome(run[w].lines)
    /\ run'[w].lines # run[w].lines

\* C27: the worker never waits for a command: an attached worker at try_recv
\* always goes on, to the poll when the queue is empty; and a successful read
\* that finds the console content changed since the poll before it sends an
\* Output event.
C27_PollsWithoutCommands ==
    /\ AttachedAtRecv(1) ~> (wpc[1] # "recv")
    /\ [][\A w \in Workers :
            /\ AttachedAtRecv(w) /\ wpc'[w] # "recv" /\ applied'[w] = applied[w] =>
                    wpc'[w] = "poll"
            /\ ReadsChangedContent(w) /\ HandleHeld(w) => EmitsOutput(w)]_vars

\* The steps that belong to a poll
PollSteps == {"poll", "read", "poll_detach"}

\* C28: the worker polls only while attached: with current_pid = None it is at no
\* step of a poll, and an iteration that ends Detached at the next try_recv has
\* made no capability call and sent no event.
C28_PollsOnlyAttached ==
    /\ [](\A w \in Workers : wpc[w] \in PollSteps => IsSome(current_pid[w]))
    /\ [][\A w \in Workers :
            wpc[w] = "recv" /\ wpc'[w] = "recv" /\ current_pid'[w] = None =>
                /\ binding' = binding
                /\ Len(events'[w]) <= Len(events[w])
                /\ last_output'[w] = last_output[w]]_vars

\* An Attach failed and the worker, Detached, then took SetLines and ended the
\* iteration without a poll: the only event is the Error of the Attach.
C28_Witness ==
    \E w \in Workers :
        /\ wpc[w] = "recv"
        /\ current_pid[w] = None
        /\ Len(applied[w]) = 2 /\ applied[w][1].tag = "Attach"
        /\ applied[w][2].tag = "SetLines"
        /\ Len(events[w]) = 1 /\ events[w][1].tag = "Error"

\* Worker w is Detached for good: current_pid is None, it is at try_recv and no
\* Attach waits in its queue.
Quiet(w) ==
    /\ wpc[w] = "recv"
    /\ current_pid[w] = None
    /\ \A i \in 1..Len(queue[w]) : queue[w][i].tag # "Attach"

\* A Detach waits in the queue of worker w, or the worker is carrying one out.
DetachPending(w) ==
    \/ \E i \in 1..Len(queue[w]) : queue[w][i] = Detach
    \/ wpc[w] = "detach"

\* C30: every worker whose handle the UI has dropped eventually has
\* current_pid = None and from then on makes no capability call: when the handle
\* is dropped the worker is Detached for good or has a Detach to come, and it
\* gets there.
C30_DroppedWorkerGoesQuiet ==
    /\ [](\A w \in Workers : HandleDropped(w) => Quiet(w) \/ DetachPending(w))
    /\ \A w \in Workers : HandleDropped(w) ~> [](HandleDropped(w) /\ Quiet(w))

\* The UI dropped the handle of a worker that was attached, and the worker has
\* carried out the Detach sent before the drop.
C30_Witness ==
    \E w \in Workers :
        /\ HandleDropped(w)
        /\ Quiet(w)
        /\ applied[w] # <<>> /\ Last(applied[w]) = Detach
        /\ \E p \in Pids : applied[w][1] = Attach(p)
        /\ queue[w] = <<>>
        /\ binding = None

\* C31: the UI holds at most one ConsoleWorker, the last it spawned: the events
\* channel of every other worker is closed; and whenever attached_pid is
\* Some(pid) the UI holds a worker, and the first command sent to that worker
\* was Attach(pid).
C31_OneHandleAttachFirst ==
    /\ Cardinality({w \in Workers : HandleHeld(w)}) <= 1
    /\ \A w \in Workers :
            /\ HandleHeld(w) => w = nworkers
            /\ ~HandleHeld(w) => events[w] = <<>>
    /\ IsSome(attached_pid) =>
            /\ IsSome(worker)
            /\ sent[Unwrap(worker)] # <<>>
            /\ Head(sent[Unwrap(worker)]) = Attach(Unwrap(attached_pid))

\* The UI re-attached to another pid: the first worker was sent Attach and
\* Detach and has taken a command, its handle was replaced; the second worker is
\* held, was sent Attach for the pid the UI is attached to and has sent an event.
C31_Witness ==
    /\ worker = Some(2)
    /\ \E p \in Pids :
            /\ attached_pid = Some(p)
            /\ sent[2] = <<Attach(p)>>
            /\ Len(sent[1]) = 2 /\ sent[1][1].tag = "Attach" /\ sent[1][1] # Attach(p)
            /\ sent[1][2] = Detach
    /\ applied[1] # <<>>
    /\ events[2] # <<>>

\* The step is an update_from_worker that takes the pending events of the
\* newest worker, whose handle the UI holds, and e is one of them.
TakesFromNewest(e) ==
    /\ UiUpdateFromWorker
    /\ worker = Some(nworkers)
    /\ \E i \in 1..Len(events[nworkers]) : events[nworkers][i] = e
    /\ events'[nworkers] = <<>>

\* C32: what the UI displays is updated only from events of the newest worker:
\* every events channel holds events of its own worker only, the events a step
\* of the UI applies come from the worker it holds, the newest, and
\* console_output, status_message and last_error take the content of an event
\* only in a step that takes that event from the newest worker's channel.
C32_DisplayFromNewestWorker ==
    /\ [](/\ \A v \in Workers : origin[v] \subseteq {v}
          /\ applied_from \subseteq {nworkers})
    /\ [][/\ console_output' # console_output /\ console_output' # <<>> =>
                TakesFromNewest(Output(console_output'))
          /\ last_error' # last_error
                /\ last_error' \in {Some("Failed to attach"), Some("Read error")} =>
                TakesFromNewest(Error(Unwrap(last_error')))
          /\ last_error' # last_error /\ last_error' = Some("Console disconnected") =>
                TakesFromNewest(Disconnected)
          /\ status_message' # status_message
                /\ status_message'.msg \in {"Attached to PID", "Detached"} =>
                TakesFromNewest(Status(status_message'.msg, status_message'.pid))
          /\ status_message' # status_message
                /\ status_message'.msg = "Disconnected" =>
                TakesFromNewest(Disconnected)]_vars

\* The UI re-attached and shows the lines of an Output of the second worker,
\* while the first worker, which had sent events of its own, is still attached
\* and polling.
C32_Witness ==
    /\ worker = Some(2)
    /\ applied_from = {2}
    /\ console_output # <<>>
    /\ status_message.msg = "Attached to PID - Last update"
    /\ origin[1] = {1}
    /\ IsSome(current_pid[1]) /\ wpc[1] \in PollSteps

====
